---- MODULE Spec2Model ----
(***************************************************************************)
(* Model of the image operations of regclient (src/cli/layer.go):          *)
(* ImageCopy and ImageExport, run as sequential step machines against a    *)
(* registry, a temporary work directory and an output stream whose         *)
(* individual calls may fail.                                              *)
(***************************************************************************)
EXTENDS Integers, Sequences, FiniteSets, TLC

VARIABLES
    pc,          \* position of the running operation ("idle" between calls)
    ret,         \* value returned by the last call: "none" while running
    firstErr,    \* first failure met by the running call ("none" if none)
    calls,       \* registry calls issued by the running call, in order
    m,           \* manifest fetched by ManifestGet
    li,          \* number of layers of m fully processed by the layer loop
    refTgt,      \* ImageCopy: target reference
    dstBlobs,    \* destination registry: digests of the blobs present
    dstManifest, \* destination registry: manifest stored under each tag
    cn,          \* ImageExport: ref.CommonName()
    confIn,      \* ImageExport: config bytes as downloaded
    warned,      \* ImageExport: the digest-mismatch warning was printed
    digestFull,  \* ImageExport: digest of the layer stream just written
    conf,        \* ImageExport: decoded configuration (ociv1.Image)
    expManifest, \* ImageExport: dockerTarManifest being built
    tempDir,     \* ImageExport: the work directory and its content
    open,        \* ImageExport: streams and files currently open
    outStream,   \* ImageExport: what was written to the output stream
    args,        \* runLayerPull: the command's arguments
    blobIO,      \* runLayerPull: the reader returned by BlobGet
    stdout       \* runLayerPull: what was written to os.Stdout

vars == <<pc, ret, firstErr, calls, m, li, refTgt, dstBlobs, dstManifest,
          cn, confIn, warned, digestFull, conf, expManifest, tempDir, open,
          outStream, args, blobIO, stdout>>

copyVars   == <<refTgt, dstBlobs, dstManifest>>
exportVars == <<cn, confIn, warned, digestFull, conf, expManifest, tempDir,
                open, outStream>>
pullVars   == <<args, blobIO, stdout>>

----------------------------------------------------------------------------
(* Bounds *)

MaxLayers == 2      \* longest layer list of a manifest
NumBlobs  == 2      \* distinct blob contents known to the copy registries
NumTars   == 2      \* distinct decompressed layer streams

----------------------------------------------------------------------------
(* Digests, manifests *)

\* digest.FromBytes: the content's identity under the canonical algorithm.
Digest(bytes) == <<"sha256", bytes>>

\* digest.Digest.Encoded: the hex part, without the algorithm prefix.
Encoded(d) == d[2]

SeqsUpTo(S, n) == UNION {[1..k -> S] : k \in 0..n}

NoDigest == <<"none", <<>>>>

NoManifest == [config |-> NoDigest, layers |-> <<>>]

Manifest(cd, l) == [config |-> cd, layers |-> l]

\* Manifest accessors; the descriptor list keeps the manifest's order.
GetConfigDigest(mf) == mf.config
GetLayers(mf) == mf.layers

Range(s) == {s[i] : i \in 1..Len(s)}

\* Every digest a manifest references.
Referenced(mf) == {GetConfigDigest(mf)} \cup Range(GetLayers(mf))

----------------------------------------------------------------------------
(* Registry calls, as the callers in layer.go use them *)

CopyDigests == {Digest(b) : b \in 1..NumBlobs}
CopyManifests == {Manifest(cd, l) : cd \in CopyDigests, l \in SeqsUpTo(CopyDigests, MaxLayers)}
\* The tags of the target repository that copies write to.
Tags == {"latest"}

Call(fn, arg, ok) == [fn |-> fn, arg |-> arg, ok |-> ok]

\* BlobCopy(refSrc, refTgt, d): on success the blob is present at the target.
BlobCopy(blobs, d, ok) == IF ok THEN blobs \cup {d} ELSE blobs

\* ManifestPut(refTgt, m): on success the tag points at m.
ManifestPut(store, ref, mf, ok) == IF ok THEN [store EXCEPT ![ref] = mf] ELSE store

Err(step) == "err:" \o step

\* return err
Fail(e) ==
    /\ pc' = "done"
    /\ ret' = e
    /\ firstErr' = e

----------------------------------------------------------------------------
(* Blob contents seen by ImageExport *)

\* Decompressed layer streams.
Tars == {<<"tar", i>> : i \in 1..NumTars}

\* A layer blob is a tar stream, stored as is or gzip-compressed.
LayerBlobs == Tars \cup {<<"gzip", t>> : t \in Tars}

\* archive.DecompressStream: the tar stream inside the blob.
DecompressStream(blob) == IF blob[1] = "gzip" THEN blob[2] ELSE blob

\* Bytes that are not a JSON document.
Garbage == [json |-> FALSE, canon |-> FALSE, created |-> "nil", diffIDs |-> <<>>]

\* Config bytes: a JSON document (in json.Marshal's own formatting or not)
\* with a creation time ("nil": the field is absent) and a RootFS.DiffIDs
\* list.
ConfigBlobs ==
    {Garbage} \cup
    [json : {TRUE}, canon : BOOLEAN, created : {"nil", "2020-01-01T00:00:00Z"},
     diffIDs : {<<>>, <<Digest(<<"tar", 1>>)>>}]

\* json.Unmarshal(confstr, &conf); defined for JSON documents only.
Unmarshal(bytes) == [created |-> bytes.created, diffIDs |-> bytes.diffIDs]

\* json.Marshal(conf)
Marshal(c) == [json |-> TRUE, canon |-> TRUE, created |-> c.created, diffIDs |-> c.diffIDs]

ExportManifests ==
    {Manifest(Digest(c), l) : c \in ConfigBlobs,
                              l \in SeqsUpTo({Digest(b) : b \in LayerBlobs}, MaxLayers)}

\* The layer blob the source registry stores under a digest.
SrcBlob(d) == Encoded(d)

\* Mutant: the path below the work directory (digestFileFull) is recorded.
LayerPathFull(hex) == <<tempDir.name, hex, "layer.tar">>

\* filepath.Join(digestHex, "layer.tar")
LayerPath(hex) == <<hex, "layer.tar">>

\* File times: time.Unix(0, 0), and the wall clock when a file is written.
Epoch == "1970-01-01T00:00:00Z"
Now == "now"

Handle(h, i) == [h |-> h, i |-> i]

\* ioutil.TempDir picks a fresh random name after the given prefix.
TempNames == {"regcli-export-123", "regcli-export-456"}
StagingNames == {<<"layer-", "123">>, <<"layer-", "456">>}

----------------------------------------------------------------------------
(* Initial state *)

NoConf == [created |-> "nil", diffIDs |-> <<>>]
NoFile == <<"none">>
NoExpManifest == [Config |-> NoFile, RepoTags |-> <<>>, Layers |-> <<>>]
NoDir == [state |-> "none", name |-> "", staging |-> {}, layers |-> {}, config |-> {},
          manifest |-> {}]
NoOut == [state |-> "empty", archive |-> NoDir]
NoArgs == [ref |-> "", digest |-> NoDigest]
NilReader == [state |-> "nil", data |-> NoFile]
NoBytes == [state |-> "empty", data |-> NoFile]

CallInit ==
    /\ pc = "idle"
    /\ ret = "none"
    /\ firstErr = "none"
    /\ calls = <<>>
    /\ m = NoManifest
    /\ li = 0

Init ==
    /\ CallInit
    /\ refTgt = "latest"
    /\ dstBlobs = {}
    /\ dstManifest = [t \in Tags |-> NoManifest]
    /\ cn = ""
    /\ confIn = Garbage
    /\ warned = FALSE
    /\ digestFull = NoDigest
    /\ conf = NoConf
    /\ expManifest = NoExpManifest
    /\ tempDir = NoDir
    /\ open = {}
    /\ outStream = NoOut
    /\ args = NoArgs
    /\ blobIO = NilReader
    /\ stdout = NoBytes

----------------------------------------------------------------------------
(* ImageCopy *)

\* Mutant: the failure of ManifestGet is not checked.
CopyManifestGetUnchecked(ok) == FALSE

\* if err != nil { return err } after ManifestGet
CopyManifestGetFailed(ok) == ~ok

\* m, err := rc.ManifestGet(ctx, refSrc)
CopyManifestGet ==
    /\ pc = "idle"
    /\ \E t \in Tags : refTgt' = t
    /\ li' = 0
    /\ \E ok \in BOOLEAN :
         /\ calls' = <<Call("ManifestGet", "src", ok)>>
         /\ IF CopyManifestGetFailed(ok)
              THEN m' = NoManifest /\ Fail(Err("ManifestGet"))
              ELSE /\ \E mf \in CopyManifests : m' = IF ok THEN mf ELSE NoManifest
                   /\ pc' = "copy_config"
                   /\ UNCHANGED <<ret, firstErr>>
    /\ UNCHANGED <<dstBlobs, dstManifest>>
    /\ UNCHANGED exportVars
    /\ UNCHANGED pullVars

\* Mutant: the failure of the config copy is logged only.
CopyConfigUnchecked(ok) == FALSE

\* if err := rc.BlobCopy(...cd...); err != nil { return err }
CopyConfigFailed(ok) == ~ok

\* cd, err := m.GetConfigDigest(); rc.BlobCopy(ctx, refSrc, refTgt, cd.String())
CopyConfig ==
    /\ pc = "copy_config"
    /\ \/ /\ Fail(Err("GetConfigDigest"))
          /\ UNCHANGED <<calls, dstBlobs>>
       \/ \E ok \in BOOLEAN :
            /\ calls' = Append(calls, Call("BlobCopy", GetConfigDigest(m), ok))
            /\ dstBlobs' = BlobCopy(dstBlobs, GetConfigDigest(m), ok)
            /\ IF CopyConfigFailed(ok)
                 THEN Fail(Err("BlobCopy"))
                 ELSE pc' = "copy_get_layers" /\ UNCHANGED <<ret, firstErr>>
    /\ UNCHANGED <<m, li, refTgt, dstManifest>>
    /\ UNCHANGED exportVars
    /\ UNCHANGED pullVars

\* l, err := m.GetLayers()
CopyGetLayers ==
    /\ pc = "copy_get_layers"
    /\ \/ Fail(Err("GetLayers"))
       \/ pc' = "copy_layers" /\ UNCHANGED <<ret, firstErr>>
    /\ UNCHANGED <<calls, m, li, copyVars>>
    /\ UNCHANGED exportVars
    /\ UNCHANGED pullVars

\* Mutant: the failure of a layer copy is logged only.
CopyLayerUnchecked(ok) == FALSE

\* if err := rc.BlobCopy(...layerSrc...); err != nil { return err }
CopyLayerFailed(ok) == ~ok

\* for _, layerSrc := range l { rc.BlobCopy(ctx, refSrc, refTgt, layerSrc.Digest.String()) }
CopyLayer ==
    /\ pc = "copy_layers"
    /\ li < Len(GetLayers(m))
    /\ \E ok \in BOOLEAN :
         /\ calls' = Append(calls, Call("BlobCopy", GetLayers(m)[li + 1], ok))
         /\ dstBlobs' = BlobCopy(dstBlobs, GetLayers(m)[li + 1], ok)
         /\ IF CopyLayerFailed(ok)
              THEN Fail(Err("BlobCopy")) /\ UNCHANGED li
              ELSE li' = li + 1 /\ UNCHANGED <<pc, ret, firstErr>>
    /\ UNCHANGED <<m, refTgt, dstManifest>>
    /\ UNCHANGED exportVars
    /\ UNCHANGED pullVars

\* rc.ManifestPut(ctx, refTgt, m); return nil
CopyManifestPut ==
    /\ pc = "copy_layers"
    /\ li = Len(GetLayers(m))
    /\ \E ok \in BOOLEAN :
         /\ calls' = Append(calls, Call("ManifestPut", m, ok))
         /\ dstManifest' = ManifestPut(dstManifest, refTgt, m, ok)
         /\ IF ok
              THEN pc' = "done" /\ ret' = "nil" /\ UNCHANGED firstErr
              ELSE Fail(Err("ManifestPut"))
    /\ UNCHANGED <<m, li, refTgt, dstBlobs>>
    /\ UNCHANGED exportVars
    /\ UNCHANGED pullVars

\* The call has returned and its locals are gone; the caller may issue the
\* next one.  The registry keeps what the call stored.
CopyReturn ==
    /\ pc = "done"
    /\ pc' = "idle"
    /\ ret' = "none"
    /\ firstErr' = "none"
    /\ calls' = <<>>
    /\ m' = NoManifest
    /\ li' = 0
    /\ UNCHANGED copyVars
    /\ UNCHANGED exportVars
    /\ UNCHANGED pullVars

----------------------------------------------------------------------------
(* ImageExport *)

\* Mutant: os.Remove, which removes an empty directory only.
RemoveIfEmpty(dir) ==
    IF dir.staging = {} /\ dir.layers = {} /\ dir.config = {} /\ dir.manifest = {}
      THEN [NoDir EXCEPT !.state = "removed"]
      ELSE dir

\* os.RemoveAll(tempDir): the directory and everything below it are gone.
RemoveAll(dir) == [NoDir EXCEPT !.state = "removed"]

\* The deferred calls, run when the function leaves by return or by panic:
\* fs.Close(), layerRComp.Close() of every iteration, os.RemoveAll(tempDir).
\* The removal is deferred only once the directory was created.
Deferred(dir) == IF dir.state = "present" THEN RemoveAll(dir) ELSE dir
CloseDeferred(handles) == {x \in handles : x.h \notin {"layerRComp", "fs"}}

\* Leave with value r after the directory and the handles reached the given
\* state; e is the failure that caused it ("none": no step failed).
Exit(r, e, dir, handles) ==
    /\ pc' = "done"
    /\ ret' = r
    /\ firstErr' = e
    /\ tempDir' = Deferred(dir)
    /\ open' = CloseDeferred(handles)

\* return err
Abort(step, dir, handles) == Exit(Err(step), Err(step), dir, handles)

\* Dereferencing a nil *conf.Created.
Panic(dir, handles) == Exit("panic", firstErr, dir, handles)

\* Mutant: the common name is not checked.
CommonNameUnchecked(name) == FALSE

\* if ref.CommonName() == ""
CommonNameEmpty(name) == name = ""

\* if ref.CommonName() == "" { return ErrNotFound }
\* expManifest.RepoTags = append(expManifest.RepoTags, ref.CommonName())
ExportBegin ==
    /\ pc = "idle"
    /\ \E name \in {"", "repo:tag"} :
         /\ cn' = name
         /\ IF CommonNameEmpty(name)
              THEN /\ Exit("ErrNotFound", "ErrNotFound", tempDir, open)
                   /\ UNCHANGED expManifest
              ELSE /\ pc' = "exp_manifest"
                   /\ expManifest' = [expManifest EXCEPT !.RepoTags = Append(@, name)]
                   /\ UNCHANGED <<ret, firstErr, tempDir, open>>
    /\ UNCHANGED <<calls, m, li, confIn, warned, digestFull, conf, outStream>>
    /\ UNCHANGED copyVars
    /\ UNCHANGED pullVars

\* m, err := rc.ManifestGet(ctx, ref)
ExportManifestGet ==
    /\ pc = "exp_manifest"
    /\ \E ok \in BOOLEAN :
         /\ calls' = Append(calls, Call("ManifestGet", cn, ok))
         /\ IF ok
              THEN /\ \E mf \in ExportManifests : m' = mf
                   /\ pc' = "exp_tempdir"
                   /\ UNCHANGED <<ret, firstErr, tempDir, open>>
              ELSE /\ Abort("ManifestGet", tempDir, open)
                   /\ UNCHANGED m
    /\ UNCHANGED <<li, cn, confIn, warned, digestFull, conf, expManifest, outStream>>
    /\ UNCHANGED copyVars
    /\ UNCHANGED pullVars

\* tempDir, err := ioutil.TempDir("", "regcli-export-"); defer os.RemoveAll(tempDir)
ExportTempDir ==
    /\ pc = "exp_tempdir"
    /\ \/ /\ \E n \in TempNames : tempDir' = [tempDir EXCEPT !.state = "present", !.name = n]
          /\ pc' = "exp_config"
          /\ UNCHANGED <<ret, firstErr, open>>
       \/ Abort("TempDir", tempDir, open)
    /\ UNCHANGED <<calls, m, li, cn, confIn, warned, digestFull, conf, expManifest, outStream>>
    /\ UNCHANGED copyVars
    /\ UNCHANGED pullVars

\* cd, err := m.GetConfigDigest(); confio, _, err := rc.BlobGet(ctx, ref, cd.String(), ...)
\* confstr, err := ioutil.ReadAll(confio)
ExportGetConfig ==
    /\ pc = "exp_config"
    /\ \/ /\ Abort("GetConfigDigest", tempDir, open)
          /\ UNCHANGED <<calls, confIn>>
       \/ /\ calls' = Append(calls, Call("BlobGet", GetConfigDigest(m), FALSE))
          /\ Abort("BlobGet", tempDir, open)
          /\ UNCHANGED confIn
       \/ /\ calls' = Append(calls, Call("BlobGet", GetConfigDigest(m), TRUE))
          /\ \/ /\ Abort("ReadAll", tempDir, open \cup {Handle("confio", 0)})
                /\ UNCHANGED confIn
             \/ /\ \E bytes \in ConfigBlobs : confIn' = bytes
                /\ open' = open \cup {Handle("confio", 0)}
                /\ pc' = "exp_decode"
                /\ UNCHANGED <<ret, firstErr, tempDir>>
    /\ UNCHANGED <<m, li, cn, warned, digestFull, conf, expManifest, outStream>>
    /\ UNCHANGED copyVars
    /\ UNCHANGED pullVars

\* Mutant: a digest mismatch returns an error.
MismatchRejected(declared, computed) == declared # computed

\* if cd != confDigest { ...Warn("Config digest mismatch") } : no return
MismatchAborts(declared, computed) == FALSE

\* Mutant: the fetched DiffIDs are kept.
KeepDiffIDs(c) == c

\* conf.RootFS.DiffIDs = []digest.Digest{}
ResetDiffIDs(c) == [c EXCEPT !.diffIDs = <<>>]

\* confDigest := digest.FromBytes(confstr); the mismatch warning;
\* err = json.Unmarshal(confstr, &conf); conf.RootFS.DiffIDs = []digest.Digest{}
ExportDecodeConfig ==
    /\ pc = "exp_decode"
    /\ warned' = (GetConfigDigest(m) # Digest(confIn))
    /\ IF warned' /\ MismatchAborts(GetConfigDigest(m), Digest(confIn))
         THEN Abort("Mismatch", tempDir, open) /\ UNCHANGED conf
         ELSE IF ~confIn.json
                THEN Abort("Unmarshal", tempDir, open) /\ UNCHANGED conf
                ELSE /\ conf' = ResetDiffIDs(Unmarshal(confIn))
                     /\ pc' = "exp_get_layers"
                     /\ UNCHANGED <<ret, firstErr, tempDir, open>>
    /\ UNCHANGED <<calls, m, li, cn, confIn, digestFull, expManifest, outStream>>
    /\ UNCHANGED copyVars
    /\ UNCHANGED pullVars

\* l, err := m.GetLayers()
ExportGetLayers ==
    /\ pc = "exp_get_layers"
    /\ \/ Abort("GetLayers", tempDir, open)
       \/ pc' = "exp_loop" /\ UNCHANGED <<ret, firstErr, tempDir, open>>
    /\ UNCHANGED <<calls, m, li, cn, confIn, warned, digestFull, conf, expManifest, outStream>>
    /\ UNCHANGED copyVars
    /\ UNCHANGED pullVars

\* The digest of the layer under work, as the manifest declares it.
LayerDesc == GetLayers(m)[li + 1]

\* layerDir, err := ioutil.TempDir(tempDir, "layer-*")
ExportLayerStage ==
    /\ pc = "exp_loop"
    /\ li < Len(GetLayers(m))
    /\ \/ /\ \E n \in StagingNames :
               tempDir' = [tempDir EXCEPT !.staging =
                              @ \cup {[id |-> li + 1, name |-> n, data |-> NoFile]}]
          /\ pc' = "exp_layer_fetch"
          /\ UNCHANGED <<ret, firstErr, open>>
       \/ Abort("LayerTempDir", tempDir, open)
    /\ UNCHANGED <<calls, m, li, cn, confIn, warned, digestFull, conf, expManifest, outStream>>
    /\ UNCHANGED copyVars
    /\ UNCHANGED pullVars

\* layerRComp, _, err := rc.BlobGet(ctx, ref, layerDesc.Digest.String(), []string{})
\* defer layerRComp.Close(); layerTarStream, err := archive.DecompressStream(layerRComp)
ExportLayerFetch ==
    /\ pc = "exp_layer_fetch"
    /\ \E got \in BOOLEAN :
         /\ calls' = Append(calls, Call("BlobGet", LayerDesc, got))
         /\ IF ~got
              THEN Abort("BlobGet", tempDir, open)
              ELSE \/ Abort("DecompressStream", tempDir, open \cup {Handle("layerRComp", li + 1)})
                   \/ /\ open' = open \cup {Handle("layerRComp", li + 1)}
                      /\ pc' = "exp_layer_write"
                      /\ UNCHANGED <<ret, firstErr, tempDir>>
    /\ UNCHANGED <<m, li, cn, confIn, warned, digestFull, conf, expManifest, outStream>>
    /\ UNCHANGED copyVars
    /\ UNCHANGED pullVars

\* The staging directory of the layer under work, holding the given file.
Staged(dir, data) ==
    [dir EXCEPT !.staging = {e \in @ : e.id # li + 1} \cup
                            {[e EXCEPT !.data = data] : e \in {x \in @ : x.id = li + 1}}]

\* lf, err := os.OpenFile(layerTarFile, ...); _, err = io.Copy(lf, tr); lf.Close()
\* The tee feeds the digester with the bytes written to the file.
ExportLayerWrite ==
    /\ pc = "exp_layer_write"
    /\ \/ /\ Abort("OpenFile", tempDir, open)
          /\ UNCHANGED digestFull
       \/ /\ Abort("LayerCopy", Staged(tempDir, <<"partial">>), open \cup {Handle("lf", li + 1)})
          /\ UNCHANGED digestFull
       \/ /\ tempDir' = Staged(tempDir, DecompressStream(SrcBlob(LayerDesc)))
          /\ digestFull' = Digest(DecompressStream(SrcBlob(LayerDesc)))
          /\ pc' = "exp_layer_rename"
          /\ UNCHANGED <<ret, firstErr, open>>
    /\ UNCHANGED <<calls, m, li, cn, confIn, warned, conf, expManifest, outStream>>
    /\ UNCHANGED copyVars
    /\ UNCHANGED pullVars

\* os.Rename(layerDir, digestDir) of a directory onto an existing directory
\* that is not empty fails.
RenameBlocked(dir, hex) == \E e \in dir.layers : e.hex = hex

\* Mutant: the staging directory is copied to the digest's name, not moved.
CopyDir(dir, hex) ==
    [dir EXCEPT !.layers = @ \cup {[hex |-> hex, data |-> e.data, mtime |-> Now] :
                                    e \in {x \in dir.staging : x.id = li + 1}}]

\* os.Rename(layerDir, digestDir): the staging directory takes the digest's name.
Rename(dir, hex) ==
    [dir EXCEPT !.staging = {e \in @ : e.id # li + 1},
                !.layers = @ \cup {[hex |-> hex, data |-> e.data, mtime |-> Now] :
                                    e \in {x \in dir.staging : x.id = li + 1}}]

\* digestHex := digestFull.Encoded(); os.Rename(layerDir, digestDir)
ExportLayerRename ==
    /\ pc = "exp_layer_rename"
    /\ \/ Abort("Rename", tempDir, open)
       \/ /\ ~RenameBlocked(tempDir, Encoded(digestFull))
          /\ tempDir' = Rename(tempDir, Encoded(digestFull))
          /\ pc' = "exp_layer_finish"
          /\ UNCHANGED <<ret, firstErr, open>>
    /\ UNCHANGED <<calls, m, li, cn, confIn, warned, digestFull, conf, expManifest, outStream>>
    /\ UNCHANGED copyVars
    /\ UNCHANGED pullVars

\* os.Chtimes(digestFileFull, *conf.Created, *conf.Created)
Chtimes(files, t) == {[f EXCEPT !.mtime = t] : f \in files}

\* Mutant: the newest layer is put first.
PrependLayer(layers, digestFile) == <<digestFile>> \o layers

\* expManifest.Layers = append(expManifest.Layers, digestFile)
AppendLayer(layers, digestFile) == Append(layers, digestFile)

\* Mutant: the digest of the compressed blob is recorded.
AppendTransportDigest(diffIDs, d) == Append(diffIDs, LayerDesc)

\* conf.RootFS.DiffIDs = append(conf.RootFS.DiffIDs, digestFull)
AppendDiffID(diffIDs, d) == Append(diffIDs, d)

\* os.Chtimes(digestFileFull, *conf.Created, *conf.Created); the two appends
ExportLayerFinish ==
    /\ pc = "exp_layer_finish"
    /\ IF conf.created = "nil"
         THEN /\ Panic(tempDir, open)
              /\ UNCHANGED <<li, conf, expManifest>>
         ELSE \/ /\ Abort("Chtimes", tempDir, open)
                 /\ UNCHANGED <<li, conf, expManifest>>
              \/ /\ tempDir' = [tempDir EXCEPT !.layers =
                        {e \in @ : e.hex # Encoded(digestFull)} \cup
                        Chtimes({e \in @ : e.hex = Encoded(digestFull)}, conf.created)]
                 /\ expManifest' = [expManifest EXCEPT
                        !.Layers = AppendLayer(@, LayerPath(Encoded(digestFull)))]
                 /\ conf' = [conf EXCEPT !.diffIDs = AppendDiffID(@, digestFull)]
                 /\ li' = li + 1
                 /\ pc' = "exp_loop"
                 /\ UNCHANGED <<ret, firstErr, open>>
    /\ UNCHANGED <<calls, m, cn, confIn, warned, digestFull, outStream>>
    /\ UNCHANGED copyVars
    /\ UNCHANGED pullVars

\* confDigest = digest.Canonical.FromBytes(confstr); confFile := confDigest.Encoded() + ".json"
ConfFile(declared, confstr) == <<Encoded(Digest(confstr)), ".json">>

\* confstr, err = json.Marshal(conf); ioutil.WriteFile(confFileFull, confstr, 0644)
\* os.Chtimes(confFileFull, *conf.Created, *conf.Created); expManifest.Config = confFile
ExportWriteConfig ==
    /\ pc = "exp_loop"
    /\ li = Len(GetLayers(m))
    /\ LET confFile == ConfFile(GetConfigDigest(m), Marshal(conf))
           written == [tempDir EXCEPT !.config =
                          {[name |-> confFile, data |-> Marshal(conf), mtime |-> Now]}]
       IN \/ /\ Abort("Marshal", tempDir, open)
             /\ UNCHANGED expManifest
          \/ /\ Abort("WriteFile", tempDir, open)
             /\ UNCHANGED expManifest
          \/ /\ conf.created = "nil"
             /\ Panic(written, open)
             /\ UNCHANGED expManifest
          \/ /\ conf.created # "nil"
             /\ \/ /\ Abort("Chtimes", written, open)
                   /\ UNCHANGED expManifest
                \/ /\ tempDir' = [written EXCEPT !.config = Chtimes(@, conf.created)]
                   /\ expManifest' = [expManifest EXCEPT !.Config = confFile]
                   /\ pc' = "exp_write_manifest"
                   /\ UNCHANGED <<ret, firstErr, open>>
    /\ UNCHANGED <<calls, m, li, cn, confIn, warned, digestFull, conf, outStream>>
    /\ UNCHANGED copyVars
    /\ UNCHANGED pullVars

\* ml := []dockerTarManifest{expManifest}; mlj, err := json.Marshal(ml)
\* ioutil.WriteFile(manifestFile, mlj, 0644); os.Chtimes(manifestFile, time.Unix(0, 0), ...)
ExportWriteManifest ==
    /\ pc = "exp_write_manifest"
    /\ LET written == [tempDir EXCEPT !.manifest = {[data |-> <<expManifest>>, mtime |-> Now]}]
       IN \/ Abort("Marshal", tempDir, open)
          \/ Abort("WriteFile", tempDir, open)
          \/ Abort("Chtimes", written, open)
          \/ /\ tempDir' = [written EXCEPT !.manifest = Chtimes(@, Epoch)]
             /\ pc' = "exp_tar"
             /\ UNCHANGED <<ret, firstErr, open>>
    /\ UNCHANGED <<calls, m, li, cn, confIn, warned, digestFull, conf, expManifest, outStream>>
    /\ UNCHANGED copyVars
    /\ UNCHANGED pullVars

\* fs, err := archive.Tar(tempDir, archive.Uncompressed); defer fs.Close()
ExportTar ==
    /\ pc = "exp_tar"
    /\ \/ Abort("Tar", tempDir, open)
       \/ /\ open' = open \cup {Handle("fs", 0)}
          /\ pc' = "exp_copy_out"
          /\ UNCHANGED <<ret, firstErr, tempDir>>
    /\ UNCHANGED <<calls, m, li, cn, confIn, warned, digestFull, conf, expManifest, outStream>>
    /\ UNCHANGED copyVars
    /\ UNCHANGED pullVars

\* archive.Tar(tempDir, archive.Uncompressed): the content of the directory,
\* by paths relative to it.
Tar(dir) == [dir EXCEPT !.name = ""]

\* Mutant: return err, the result of the copy.
CopyOutReturnsErr(err) == err

\* _, err = io.Copy(outStream, fs); return nil : the value returned when the
\* copy ended with the given result.
CopyOutReturn(err) == "nil"

\* _, err = io.Copy(outStream, fs); return nil
\* A failed copy may have written the first part of the archive already.
ExportCopyOut ==
    /\ pc = "exp_copy_out"
    /\ \/ /\ outStream' = [state |-> "full", archive |-> Tar(tempDir)]
          /\ Exit(CopyOutReturn("nil"), "none", tempDir, open)
       \/ /\ \E st \in {"empty", "partial"} : outStream' = [state |-> st, archive |-> Tar(tempDir)]
          /\ Exit(CopyOutReturn(Err("WriteOut")), Err("WriteOut"), tempDir, open)
    /\ UNCHANGED <<calls, m, li, cn, confIn, warned, digestFull, conf, expManifest>>
    /\ UNCHANGED copyVars
    /\ UNCHANGED pullVars

\* The call has returned and its locals are gone; the next call gets a fresh
\* output stream.
ExportReturn ==
    /\ pc = "done"
    /\ pc' = "idle"
    /\ ret' = "none"
    /\ firstErr' = "none"
    /\ calls' = <<>>
    /\ m' = NoManifest
    /\ li' = 0
    /\ cn' = ""
    /\ confIn' = Garbage
    /\ warned' = FALSE
    /\ digestFull' = NoDigest
    /\ conf' = NoConf
    /\ expManifest' = NoExpManifest
    /\ tempDir' = NoDir
    /\ open' = {}
    /\ outStream' = NoOut
    /\ UNCHANGED copyVars
    /\ UNCHANGED pullVars

NextExport ==
    \/ ExportBegin
    \/ ExportManifestGet
    \/ ExportTempDir
    \/ ExportGetConfig
    \/ ExportDecodeConfig
    \/ ExportGetLayers
    \/ ExportLayerStage
    \/ ExportLayerFetch
    \/ ExportLayerWrite
    \/ ExportLayerRename
    \/ ExportLayerFinish
    \/ ExportWriteConfig
    \/ ExportWriteManifest
    \/ ExportTar
    \/ ExportCopyOut
    \/ ExportReturn

SpecExport == Init /\ [][NextExport]_vars

----------------------------------------------------------------------------
(* ImageInspect *)

\* m, err := rc.ManifestGet(ctx, ref)
InspectManifestGet ==
    /\ pc = "idle"
    /\ \E ok \in BOOLEAN :
         /\ calls' = <<Call("ManifestGet", "ref", ok)>>
         /\ IF ok
              THEN /\ \E mf \in ExportManifests : m' = mf
                   /\ pc' = "insp_config"
                   /\ UNCHANGED <<ret, firstErr>>
              ELSE /\ Fail(Err("ManifestGet"))
                   /\ UNCHANGED m
    /\ UNCHANGED <<li, cn, confIn, warned, digestFull, conf, expManifest, tempDir, open, outStream>>
    /\ UNCHANGED copyVars
    /\ UNCHANGED pullVars

\* cd, err := m.GetConfigDigest(); imgIO, _, err := rc.BlobGet(ctx, ref, cd.String(), ...)
\* imgBody, err := ioutil.ReadAll(imgIO)
InspectGetConfig ==
    /\ pc = "insp_config"
    /\ \/ /\ Fail(Err("GetConfigDigest"))
          /\ UNCHANGED <<calls, confIn, open>>
       \/ /\ calls' = Append(calls, Call("BlobGet", GetConfigDigest(m), FALSE))
          /\ Fail(Err("BlobGet"))
          /\ UNCHANGED <<confIn, open>>
       \/ /\ calls' = Append(calls, Call("BlobGet", GetConfigDigest(m), TRUE))
          /\ open' = open \cup {Handle("imgIO", 0)}
          /\ \/ /\ Fail(Err("ReadAll"))
                /\ UNCHANGED confIn
             \/ /\ \E bytes \in ConfigBlobs : confIn' = bytes
                /\ pc' = "insp_decode"
                /\ UNCHANGED <<ret, firstErr>>
    /\ UNCHANGED <<m, li, cn, warned, digestFull, conf, expManifest, tempDir, outStream>>
    /\ UNCHANGED copyVars
    /\ UNCHANGED pullVars

\* Mutant: the bytes are checked against the declared digest.
InspectMismatchRejected(declared, computed) == declared # computed

\* ImageInspect compares no digest: nothing is rejected for its digest.
InspectRejects(declared, computed) == FALSE

\* err = json.Unmarshal(imgBody, &img); return img, nil
InspectDecode ==
    /\ pc = "insp_decode"
    /\ IF InspectRejects(GetConfigDigest(m), Digest(confIn))
         THEN Fail(Err("Mismatch")) /\ UNCHANGED conf
         ELSE IF ~confIn.json
                THEN Fail(Err("Unmarshal")) /\ UNCHANGED conf
                ELSE /\ conf' = Unmarshal(confIn)
                     /\ pc' = "done"
                     /\ ret' = "nil"
                     /\ UNCHANGED firstErr
    /\ UNCHANGED <<calls, m, li, cn, confIn, warned, digestFull, expManifest, tempDir, open, outStream>>
    /\ UNCHANGED copyVars
    /\ UNCHANGED pullVars

\* The call has returned and its locals are gone.
InspectReturn ==
    /\ pc = "done"
    /\ pc' = "idle"
    /\ ret' = "none"
    /\ firstErr' = "none"
    /\ calls' = <<>>
    /\ m' = NoManifest
    /\ confIn' = Garbage
    /\ conf' = NoConf
    /\ open' = {}
    /\ UNCHANGED <<li, cn, warned, digestFull, expManifest, tempDir, outStream>>
    /\ UNCHANGED copyVars
    /\ UNCHANGED pullVars

NextInspect ==
    \/ InspectManifestGet
    \/ InspectGetConfig
    \/ InspectDecode
    \/ InspectReturn

SpecInspect == Init /\ [][NextInspect]_vars

----------------------------------------------------------------------------
(* runLayerPull *)

\* args[0]: a string NewRef rejects and strings it parses.
PullRefs == {"", "repo:tag", "host/repo:tag", "repo@sha256:0"}

\* ref, err := regclient.NewRef(args[0]); if err != nil { return err }
PullNewRef ==
    /\ pc = "idle"
    /\ \E r \in PullRefs, b \in LayerBlobs :
         /\ args' = [ref |-> r, digest |-> Digest(b)]
         /\ IF r = ""
              THEN Fail(Err("NewRef"))
              ELSE pc' = "pull_get" /\ UNCHANGED <<ret, firstErr>>
    /\ UNCHANGED <<calls, m, li, blobIO, stdout>>
    /\ UNCHANGED copyVars
    /\ UNCHANGED exportVars

\* What BlobGet hands back as its reader when it returns an error: nil, or a
\* reader over whatever the registry answered.
FailedReaders == {NilReader, [state |-> "stream", data |-> <<"error body">>]}

\* blobIO, resp, err := rc.BlobGet(context.Background(), ref, args[1], []string{})
\* err is not looked at before it is assigned again.
PullBlobGet ==
    /\ pc = "pull_get"
    /\ \/ /\ calls' = Append(calls, Call("BlobGet", args.digest, TRUE))
          /\ blobIO' = [state |-> "stream", data |-> SrcBlob(args.digest)]
          /\ UNCHANGED firstErr
       \/ /\ calls' = Append(calls, Call("BlobGet", args.digest, FALSE))
          /\ \E r \in FailedReaders : blobIO' = r
          /\ firstErr' = Err("BlobGet")
    /\ pc' = "pull_copy"
    /\ UNCHANGED <<ret, m, li, args, stdout>>
    /\ UNCHANGED copyVars
    /\ UNCHANGED exportVars

\* _, err = io.Copy(os.Stdout, blobIO); if err != nil { return err }; return nil
\* Reading from a nil reader panics; a failed copy may have written a part.
PullCopy ==
    /\ pc = "pull_copy"
    /\ pc' = "done"
    /\ IF blobIO.state = "nil"
         THEN /\ calls' = Append(calls, Call("io.Copy", blobIO.data, FALSE))
              /\ ret' = "panic"
              /\ UNCHANGED <<firstErr, stdout>>
         ELSE \/ /\ calls' = Append(calls, Call("io.Copy", blobIO.data, TRUE))
                 /\ stdout' = [state |-> "full", data |-> blobIO.data]
                 /\ ret' = "nil"
                 /\ UNCHANGED firstErr
              \/ /\ calls' = Append(calls, Call("io.Copy", blobIO.data, FALSE))
                 /\ \E st \in {"empty", "partial"} : stdout' = [state |-> st, data |-> blobIO.data]
                 /\ ret' = Err("io.Copy")
                 /\ firstErr' = IF firstErr = "none" THEN Err("io.Copy") ELSE firstErr
    /\ UNCHANGED <<m, li, args, blobIO>>
    /\ UNCHANGED copyVars
    /\ UNCHANGED exportVars

\* The command has ended; the next one starts with an empty standard output.
PullReturn ==
    /\ pc = "done"
    /\ pc' = "idle"
    /\ ret' = "none"
    /\ firstErr' = "none"
    /\ calls' = <<>>
    /\ args' = NoArgs
    /\ blobIO' = NilReader
    /\ stdout' = NoBytes
    /\ UNCHANGED <<m, li>>
    /\ UNCHANGED copyVars
    /\ UNCHANGED exportVars

NextPull ==
    \/ PullNewRef
    \/ PullBlobGet
    \/ PullCopy
    \/ PullReturn

SpecPull == Init /\ [][NextPull]_vars

----------------------------------------------------------------------------
NextCopy ==
    \/ CopyManifestGet
    \/ CopyConfig
    \/ CopyGetLayers
    \/ CopyLayer
    \/ CopyManifestPut
    \/ CopyReturn

SpecCopy == Init /\ [][NextCopy]_vars

----------------------------------------------------------------------------
(* Properties of ImageCopy, checked under SpecCopy *)

\* Call k of the run is a successful BlobCopy of digest d.
CopiedOk(k, d) == calls[k].fn = "BlobCopy" /\ calls[k].ok /\ calls[k].arg = d

\* C1: ManifestPut is invoked only after the BlobCopy of the config and of
\* every layer of the fetched manifest each returned success, and a run with
\* a failed BlobCopy has no ManifestPut call at all.
C1_PutOnlyAfterAllBlobsCopied ==
    \A j \in 1..Len(calls) :
        calls[j].fn = "ManifestPut" =>
          /\ \A k \in 1..Len(calls) : calls[k].fn = "BlobCopy" => (k < j /\ calls[k].ok)
          /\ \E k \in 1..(j - 1) : CopiedOk(k, GetConfigDigest(m))
          /\ \A i \in 1..Len(GetLayers(m)) :
                \E k \in 1..(j - 1) : CopiedOk(k, GetLayers(m)[i])

\* A run over a manifest with two layers that reached ManifestPut.
C1_Witness ==
    /\ pc = "done"
    /\ Len(GetLayers(m)) >= 2
    /\ calls[Len(calls)].fn = "ManifestPut"

\* C2: every manifest stored at the destination has its config blob and all
\* its layer blobs present at the destination, whatever copies ran before
\* and however they ended.
C2_NoDanglingReference ==
    \A t \in Tags :
        dstManifest[t] # NoManifest => Referenced(dstManifest[t]) \subseteq dstBlobs

\* A copy failed after it left a blob that no stored manifest references,
\* while the destination holds a manifest.
C2_Witness ==
    /\ pc = "done"
    /\ ret = Err("BlobCopy")
    /\ \E t \in Tags : dstManifest[t] # NoManifest
    /\ \E d \in dstBlobs : \A t \in Tags : d \notin Referenced(dstManifest[t])

\* The run's first call is a ManifestGet that failed.
ManifestGetFailed == calls # <<>> /\ calls[1].fn = "ManifestGet" /\ ~calls[1].ok

\* C9: a step that makes ManifestGet fail ends the run with that error, with
\* no other call issued and the destination registry unchanged.
C9_ManifestGetFailureChangesNothing ==
    [][ManifestGetFailed' =>
          /\ pc' = "done"
          /\ ret' = Err("ManifestGet")
          /\ Len(calls') = 1
          /\ dstBlobs' = dstBlobs
          /\ dstManifest' = dstManifest]_vars

\* ManifestGet failed against a destination that holds blobs and a manifest.
C9_Witness ==
    /\ pc = "done"
    /\ ManifestGetFailed
    /\ dstBlobs # {}
    /\ \E t \in Tags : dstManifest[t] # NoManifest

----------------------------------------------------------------------------
(* Properties of ImageExport, checked under SpecExport *)

\* The diff ID of the layer a manifest declares under digest d: the digest of
\* the decompressed stream of the blob stored under d.
DiffIDOf(d) == Digest(DecompressStream(SrcBlob(d)))

ExpectedDiffIDs == [i \in 1..Len(GetLayers(m)) |-> DiffIDOf(GetLayers(m)[i])]

ExpectedLayers == [i \in 1..Len(GetLayers(m)) |-> LayerPath(Encoded(DiffIDOf(GetLayers(m)[i])))]

\* C3: once a step of ImageExport has failed, the call returns the error of
\* the first failed step.
C3_FirstErrorReturned ==
    (pc = "done" /\ firstErr # "none") => ret = firstErr

\* C4: when ImageExport has left, by return or by panic, the work directory
\* and everything staged in it is gone.
C4_WorkDirRemoved ==
    pc = "done" =>
      /\ tempDir.state # "present"
      /\ tempDir.staging = {} /\ tempDir.layers = {}
      /\ tempDir.config = {} /\ tempDir.manifest = {}

\* The second layer failed to rename after the first was staged.
C4_Witness ==
    /\ pc = "done"
    /\ firstErr = Err("Rename")
    /\ li = 1
    /\ tempDir.state = "removed"

\* C5: a call that does not return nil wrote nothing to the output stream;
\* bytes reach the output stream only after all layers are staged and
\* renamed and the config file and manifest.json are written; a failed
\* decompression of the second layer leaves the stream empty and the work
\* directory removed.
C5_NoOutputOnError ==
    /\ (pc = "done" /\ ret # "nil") => outStream.state = "empty"
    /\ outStream.state # "empty" =>
          /\ li = Len(GetLayers(m))
          /\ outStream.archive.staging = {}
          /\ \A i \in 1..Len(GetLayers(m)) :
                \E e \in outStream.archive.layers : e.hex = Encoded(DiffIDOf(GetLayers(m)[i]))
          /\ outStream.archive.config # {}
          /\ outStream.archive.manifest # {}
    /\ (pc = "done" /\ li = 1 /\ firstErr \in {Err("DecompressStream"), Err("LayerCopy")}) =>
          (outStream.state = "empty" /\ tempDir.state = "removed")

\* The decompression of the second layer failed while the stream was copied.
C5_Witness ==
    /\ pc = "done"
    /\ li = 1
    /\ firstErr = Err("LayerCopy")
    /\ ret = Err("LayerCopy")

\* C6: after a successful export the one entry of manifest.json lists, for a
\* manifest of N layers, N paths, the i-th being <hex of the diff ID of
\* layer i>/layer.tar.
C6_LayersInManifestOrder ==
    (pc = "done" /\ ret = "nil") =>
      /\ expManifest.Layers = ExpectedLayers
      /\ \A f \in outStream.archive.manifest :
            Len(f.data) = 1 /\ f.data[1].Layers = ExpectedLayers
      /\ outStream.archive.manifest # {}

\* A successful export of two layers, fully written.
C6_Witness ==
    /\ pc = "done"
    /\ ret = "nil"
    /\ outStream.state = "full"
    /\ Len(GetLayers(m)) >= 2

\* C7: after a successful export RootFS.DiffIDs holds, for a manifest of N
\* layers, the N digests of the decompressed layer streams in manifest
\* order, whatever DiffIDs the fetched configuration carried.
C7_DiffIDsRecomputed ==
    (pc = "done" /\ ret = "nil") =>
      /\ conf.diffIDs = ExpectedDiffIDs
      /\ \A f \in outStream.archive.config : f.data.diffIDs = ExpectedDiffIDs
      /\ outStream.archive.config # {}

\* A successful export of a compressed layer whose fetched configuration
\* carried DiffIDs.
C7_Witness ==
    /\ pc = "done"
    /\ ret = "nil"
    /\ Len(GetLayers(m)) >= 1
    /\ SrcBlob(GetLayers(m)[1])[1] = "gzip"
    /\ confIn.diffIDs # <<>>
    /\ confIn.diffIDs # ExpectedDiffIDs

\* C8: with an empty common name the call returns ErrNotFound and has made
\* no registry call, created no work directory and written no output.
C8_EmptyNameFailsFirst ==
    (pc = "done" /\ cn = "") =>
      /\ ret = "ErrNotFound"
      /\ calls = <<>>
      /\ tempDir = NoDir
      /\ outStream = NoOut

C8_Witness ==
    /\ pc = "done"
    /\ cn = ""
    /\ ret = "ErrNotFound"

\* The name of the config file of the export under way: the hex digest of
\* the serialization of the fetched configuration with its DiffIDs rebuilt.
ExpectedConfFile ==
    <<Encoded(Digest(Marshal([created |-> Unmarshal(confIn).created,
                              diffIDs |-> ExpectedDiffIDs]))), ".json">>

\* C10: a config whose bytes do not hash to the declared digest does not
\* stop the export; if no step fails afterwards (and the configuration has
\* a creation time to stamp the files with) the export returns nil, and an
\* export that returns nil named the config file by the digest of the
\* re-serialized configuration.
C10_MismatchDoesNotAbort ==
    [][/\ (pc = "exp_decode" /\ GetConfigDigest(m) # Digest(confIn) /\ confIn.json)
            => (pc' = "exp_get_layers" /\ ret' = "none")
       /\ (pc' = "done" /\ warned' /\ firstErr' = "none" /\ conf'.created # "nil")
            => ret' = "nil"
       /\ (pc' = "done" /\ ret' = "nil" /\ warned')
            => /\ expManifest'.Config = ExpectedConfFile'
               /\ \A f \in outStream'.archive.config : f.name = ExpectedConfFile'
               /\ outStream'.archive.config # {}]_vars

\* A successful export after the warning, whose config file does not carry
\* the declared digest.
C10_Witness ==
    /\ pc = "done"
    /\ ret = "nil"
    /\ warned
    /\ GetConfigDigest(m) # Digest(confIn)
    /\ expManifest.Config # <<Encoded(GetConfigDigest(m)), ".json">>

\* What a successful export of manifest mf, whose config blob holds bytes,
\* under common name name packs: a function of the registry content and the
\* reference alone.
ExportDiffIDs(mf) == [i \in 1..Len(mf.layers) |-> Digest(DecompressStream(SrcBlob(mf.layers[i])))]

ExportConf(mf, bytes) == [created |-> Unmarshal(bytes).created, diffIDs |-> ExportDiffIDs(mf)]

ExportConfName(mf, bytes) == <<Encoded(Digest(Marshal(ExportConf(mf, bytes)))), ".json">>

ExportEntry(mf, bytes, name) ==
    [Config |-> ExportConfName(mf, bytes),
     RepoTags |-> <<name>>,
     Layers |-> [i \in 1..Len(mf.layers) |-> <<Encoded(ExportDiffIDs(mf)[i]), "layer.tar">>]]

ExportOf(mf, bytes, name) ==
    [state |-> "present", name |-> "", staging |-> {},
     layers |-> {[hex |-> Encoded(ExportDiffIDs(mf)[i]),
                  data |-> DecompressStream(SrcBlob(mf.layers[i])),
                  mtime |-> Unmarshal(bytes).created] : i \in 1..Len(mf.layers)},
     config |-> {[name |-> ExportConfName(mf, bytes),
                  data |-> Marshal(ExportConf(mf, bytes)),
                  mtime |-> Unmarshal(bytes).created]},
     manifest |-> {[data |-> <<ExportEntry(mf, bytes, name)>>, mtime |-> Epoch]}]

\* C11: what an export packs and returns nil for (config file name, DiffIDs,
\* manifest.json, the whole archive) is determined by the manifest, the
\* config bytes and the common name, so two successful exports of the same
\* unchanged content agree, whatever names the work directory and the
\* staging directories got.
C11_ExportDeterministic ==
    /\ pc = "exp_copy_out" => Tar(tempDir) = ExportOf(m, confIn, cn)
    /\ (pc = "done" /\ ret = "nil") =>
          /\ outStream.archive = ExportOf(m, confIn, cn)
          /\ expManifest = ExportEntry(m, confIn, cn)
          /\ conf.diffIDs = ExportDiffIDs(m)

\* Two layers are staged and about to be packed from the work directory
\* that got the second of the random names.
C11_Witness ==
    /\ pc = "exp_copy_out"
    /\ tempDir.name = "regcli-export-456"
    /\ Len(GetLayers(m)) >= 2

----------------------------------------------------------------------------
(* Properties of ImageInspect, checked under SpecInspect *)

\* The number of calls of fn the run has issued.
CallCount(fn) == Cardinality({k \in 1..Len(calls) : calls[k].fn = fn})

\* C12: ImageInspect issues one ManifestGet and at most one BlobGet and
\* nothing else, writes neither to the registry nor to the file system,
\* returns the decoded configuration whenever the bytes fetched decode, also
\* when they do not hash to the declared digest, and returns the first
\* error otherwise.
C12_InspectReadsWithoutVerifying ==
    [][/\ (pc = "insp_decode" /\ confIn.json)
            => (pc' = "done" /\ ret' = "nil" /\ conf' = Unmarshal(confIn))
       /\ (pc' = "done" /\ firstErr' # "none") => ret' = firstErr'
       /\ (pc' = "done" /\ firstErr' = "none") => ret' = "nil"
       /\ pc' # "idle" =>
            /\ \A k \in 1..Len(calls') : calls'[k].fn \in {"ManifestGet", "BlobGet"}
            /\ CallCount("ManifestGet")' = 1
            /\ CallCount("BlobGet")' <= 1
       /\ UNCHANGED <<dstBlobs, dstManifest, tempDir, outStream>>]_vars

\* A configuration was returned although its bytes do not hash to the
\* declared digest.
C12_Witness ==
    /\ pc = "done"
    /\ ret = "nil"
    /\ CallCount("BlobGet") = 1
    /\ GetConfigDigest(m) # Digest(confIn)
    /\ conf = Unmarshal(confIn)
    /\ conf.diffIDs # <<>>

----------------------------------------------------------------------------
(* Order of the calls of ImageCopy, checked under SpecCopy *)

\* The positions of the run's BlobCopy calls.
BlobCopies == {k \in 1..Len(calls) : calls[k].fn = "BlobCopy"}

\* C13: the first BlobCopy of a run is that of the config, layer copies come
\* only after it succeeded, and a run that failed to resolve the config
\* descriptor or to copy the config has no layer copy.
C13_ConfigBeforeLayers ==
    /\ \A k \in BlobCopies :
          /\ k >= 2
          /\ calls[2].fn = "BlobCopy"
          /\ calls[2].arg = GetConfigDigest(m)
          /\ k > 2 => calls[2].ok
    /\ firstErr = Err("GetConfigDigest") => BlobCopies = {}

\* The config copy of a manifest with layers failed.
C13_Witness ==
    /\ pc = "done"
    /\ Len(GetLayers(m)) >= 1
    /\ Len(calls) = 2
    /\ calls[2].fn = "BlobCopy"
    /\ ~calls[2].ok
    /\ ret = Err("BlobCopy")

\* C14: layer i is copied as call i + 2, after the copy before it succeeded;
\* a failed BlobCopy is the last call of the run and its error is returned;
\* a run that returns nil issued ManifestGet, the config copy, the N layer
\* copies in manifest order and one ManifestPut of the fetched manifest.
C14_LayersInOrderThenPut ==
    /\ \A k \in BlobCopies :
          /\ k > 2 => /\ k - 2 <= Len(m.layers)
                      /\ calls[k].arg = m.layers[k - 2]
                      /\ calls[k - 1].fn = "BlobCopy"
                      /\ calls[k - 1].ok
          /\ ~calls[k].ok => (k = Len(calls) /\ pc = "done" /\ ret = Err("BlobCopy"))
    /\ (pc = "done" /\ ret = "nil") =>
          /\ Len(calls) = Len(m.layers) + 3
          /\ calls[1].fn = "ManifestGet"
          /\ \A k \in 2..(Len(m.layers) + 2) : k \in BlobCopies /\ calls[k].ok
          /\ calls[2].arg = m.config
          /\ calls[Len(calls)].fn = "ManifestPut"
          /\ calls[Len(calls)].ok
          /\ calls[Len(calls)].arg = m
          /\ dstManifest[refTgt] = m

\* A copy of a manifest with two different layers returned nil.
C14_Witness ==
    /\ pc = "done"
    /\ ret = "nil"
    /\ Len(m.layers) >= 2
    /\ m.layers[1] # m.layers[2]

----------------------------------------------------------------------------
(* The work directory of ImageExport, checked under SpecExport *)

\* C15: when the stream just staged has the digest of a layer directory that
\* exists already, the rename can still succeed (the export goes on with
\* one directory for that digest).
C15_DuplicateLayerRenamed ==
    (pc = "exp_layer_rename" /\ RenameBlocked(tempDir, Encoded(digestFull)))
        => ENABLED (ExportLayerRename /\ pc' = "exp_layer_finish")

\* Directory a holds what an export under common name name is to pack.
PackedRight(a, name) ==
    /\ a.staging = {}
    /\ Cardinality(a.config) = 1
    /\ Cardinality(a.manifest) = 1
    /\ \A cf \in a.config : \A mf \in a.manifest :
          /\ cf.name = <<Encoded(Digest(cf.data)), ".json">>
          /\ cf.data = Marshal(conf)
          /\ Len(mf.data) = 1
          /\ mf.data[1].Config = cf.name
          /\ mf.data[1].RepoTags = <<name>>
          /\ \A i \in 1..Len(mf.data[1].Layers) :
                \E e \in a.layers : LayerPath(e.hex) = mf.data[1].Layers[i] /\ e.data \in Tars
          /\ \A e \in a.layers :
                \E i \in 1..Len(mf.data[1].Layers) : LayerPath(e.hex) = mf.data[1].Layers[i]

\* C16: the directory that is packed, and the archive of a call that returns
\* nil, hold one config file named by the hex digest of its own content (the
\* serialized rebuilt configuration), one manifest.json with one entry whose
\* Config is that name and whose RepoTags is the common name alone, a
\* layer.tar at every path of the entry's Layers, no other layer directory
\* and no staging directory.
C16_PackedDirectory ==
    /\ pc = "exp_copy_out" => PackedRight(tempDir, cn)
    /\ (pc = "done" /\ ret = "nil") => PackedRight(outStream.archive, cn)

\* A complete archive with a layer was written.
C16_Witness ==
    /\ pc = "done"
    /\ ret = "nil"
    /\ outStream.state = "full"
    /\ outStream.archive.layers # {}

\* C17: in every state Layers and DiffIDs both have one entry for each of
\* the li layers processed, the i-th being the diff ID of manifest layer i
\* and its path; while the work directory exists each such layer has its
\* directory under the digest's name, stamped with the creation time.
C17_LayersAndDiffIDsInLockstep ==
    /\ Len(expManifest.Layers) = li
    /\ Len(conf.diffIDs) = li
    /\ li <= Len(GetLayers(m))
    /\ \A i \in 1..li :
          /\ conf.diffIDs[i] = DiffIDOf(GetLayers(m)[i])
          /\ expManifest.Layers[i] = LayerPath(Encoded(conf.diffIDs[i]))
          /\ tempDir.state = "present" =>
                \E e \in tempDir.layers :
                    e.hex = Encoded(conf.diffIDs[i]) /\ e.mtime = conf.created

\* The export stopped at the time stamp of the second layer, after the
\* first layer, a compressed one, was recorded.
C17_Witness ==
    /\ pc = "done"
    /\ firstErr = Err("Chtimes")
    /\ Len(GetLayers(m)) = 2
    /\ li = 1
    /\ SrcBlob(GetLayers(m)[1])[1] = "gzip"
    /\ Len(expManifest.Layers) = 1

\* C19: when ImageExport has left, every stream and file it opened is
\* closed.
C19_EverythingClosed ==
    pc = "done" => open = {}

----------------------------------------------------------------------------
(* Properties of runLayerPull, checked under SpecPull *)

\* The run's BlobGet returned an error.
FetchFailed == \E k \in 1..Len(calls) : calls[k].fn = "BlobGet" /\ ~calls[k].ok

\* C18: a command whose BlobGet failed ends with that error, with nothing
\* written to standard output and without having called io.Copy.
C18_FailedFetchReturned ==
    (pc = "done" /\ FetchFailed) =>
      /\ ret = Err("BlobGet")
      /\ stdout.state = "empty"
      /\ \A k \in 1..Len(calls) : calls[k].fn # "io.Copy"

====
